---- MODULE Spec2Model ----
(***************************************************************************)
(* ThaiDatePicker: a controlled React date / date-time input that shows    *)
(* Buddhist-Era dates and exchanges a Gregorian (AD) string with its       *)
(* parent.  The module models dateUtils.ts (formatting, parsing, calendar  *)
(* arithmetic) and the component's state, handlers and value-sync effect.  *)
(*                                                                         *)
(* Strings are sequences of one-character strings, so that length, split,  *)
(* slice and parseInt are computed character by character.                 *)
(* A JS Date is a record [y, m, d, h, mi] in local time (m is 0-based);    *)
(* seconds and milliseconds never reach a string or a comparison between   *)
(* two parsed dates and are left out.  Local time has no DST transitions   *)
(* (Asia/Bangkok).                                                         *)
(***************************************************************************)
EXTENDS Integers, Sequences, FiniteSets, TLC

\* ------------------------------------------------------------------------
\* Characters and strings
\* ------------------------------------------------------------------------
Digits == {"0", "1", "2", "3", "4", "5", "6", "7", "8", "9"}

DigitVal(c) ==
  CASE c = "0" -> 0 [] c = "1" -> 1 [] c = "2" -> 2 [] c = "3" -> 3
    [] c = "4" -> 4 [] c = "5" -> 5 [] c = "6" -> 6 [] c = "7" -> 7
    [] c = "8" -> 8 [] c = "9" -> 9

DigitChar(n) ==
  CASE n = 0 -> "0" [] n = 1 -> "1" [] n = 2 -> "2" [] n = 3 -> "3"
    [] n = 4 -> "4" [] n = 5 -> "5" [] n = 6 -> "6" [] n = 7 -> "7"
    [] n = 8 -> "8" [] n = 9 -> "9"

\* The empty string ''.
Empty == <<>>

\* String.prototype.slice(from, to) with 0-based, non-negative indices.
slice(s, from, to) ==
  IF from >= Len(s) \/ to <= from THEN Empty
  ELSE SubSeq(s, from + 1, IF to > Len(s) THEN Len(s) ELSE to)

\* String(n) for a non-negative integer n.
RECURSIVE String(_)
String(n) == IF n < 10 THEN <<DigitChar(n)>>
             ELSE String(n \div 10) \o <<DigitChar(n % 10)>>

\* s.padStart(2, '0')
padStart2(s) == IF Len(s) >= 2 THEN s ELSE <<"0">> \o s

\* s.split(sep) for a one-character separator: the sequence of the parts.
RECURSIVE splitFrom(_, _, _, _)
splitFrom(s, sep, i, cur) ==
  IF i > Len(s) THEN <<cur>>
  ELSE IF s[i] = sep THEN <<cur>> \o splitFrom(s, sep, i + 1, Empty)
  ELSE splitFrom(s, sep, i + 1, Append(cur, s[i]))

split(s, sep) == splitFrom(s, sep, 1, Empty)

\* parseInt(s, 10): leading blanks are skipped, one sign is accepted, then the
\* longest run of digits is read and whatever follows it is ignored.
\* The result is <<n>>, or NaN when no digit is read.
NaN == <<>>

isNaN(r) == r = NaN

RECURSIVE skipBlanks(_, _)
skipBlanks(s, i) == IF i <= Len(s) /\ s[i] = " " THEN skipBlanks(s, i + 1) ELSE i

RECURSIVE readDigits(_, _, _)
readDigits(s, i, acc) ==
  IF i <= Len(s) /\ s[i] \in Digits
  THEN readDigits(s, i + 1, 10 * acc + DigitVal(s[i]))
  ELSE acc

\* The place after the sign, if there is one at place i.
afterSign(s, i) == IF i <= Len(s) /\ s[i] \in {"-", "+"} THEN i + 1 ELSE i

\* The number whose sign, if any, is at place i and whose digits start at j.
signedDigits(s, i, j) ==
  IF j <= Len(s) /\ s[j] \in Digits
  THEN <<(IF s[i] = "-" THEN -1 ELSE 1) * readDigits(s, j, 0)>>
  ELSE NaN

parseIntFrom(s, i) == signedDigits(s, i, afterSign(s, i))

parseInt(s) == parseIntFrom(s, skipBlanks(s, 1))

\* A part that a destructuring may have left undefined reads as ''.
partAt(parts, k) == IF k <= Len(parts) THEN parts[k] ELSE Empty

\* ------------------------------------------------------------------------
\* JS Date
\* ------------------------------------------------------------------------
Null == [y |-> 0, m |-> 0, d |-> 0, h |-> 0, mi |-> 0]

IsLeap(y) == (y % 4 = 0 /\ y % 100 # 0) \/ y % 400 = 0

MonthLength(y, m) ==
  IF m = 1 THEN (IF IsLeap(y) THEN 29 ELSE 28)
  ELSE IF m \in {3, 5, 8, 10} THEN 30 ELSE 31

\* Day overflow and underflow of the Date constructor: the day is carried
\* into the following or the preceding months.
RECURSIVE carryDay(_, _, _)
carryDay(y, m, d) ==
  IF d < 1
  THEN IF m = 0 THEN carryDay(y - 1, 11, d + MonthLength(y - 1, 11))
       ELSE carryDay(y, m - 1, d + MonthLength(y, m - 1))
  ELSE IF d > MonthLength(y, m)
  THEN IF m = 11 THEN carryDay(y + 1, 0, d - 31)
       ELSE carryDay(y, m + 1, d - MonthLength(y, m))
  ELSE [y |-> y, m |-> m, d |-> d]

atTime(c, hour, minute) ==
  [y |-> c.y, m |-> c.m, d |-> c.d, h |-> hour, mi |-> minute]

\* new Date(year, monthIndex, day, hour, minute): a year in 0..99 means
\* 1900 + year, the month index is carried into the year, the day into the
\* month.  Hour and minute are in range at every call site.
NewDate(year, monthIndex, day, hour, minute) ==
  atTime(carryDay((IF year >= 0 /\ year <= 99 THEN 1900 + year ELSE year)
                    + (monthIndex \div 12),
                  monthIndex % 12, day),
         hour, minute)

\* Days from 1970-01-01 to the day d of month mp of the year that starts in
\* March of yy (mp = 0 is March).
daysFromMarch(yy, mp, d) ==
  (yy \div 400) * 146097
    + (yy % 400) * 365 + (yy % 400) \div 4 - (yy % 400) \div 100
    + (153 * mp + 2) \div 5 + d - 1 - 719468

DaysFromCivil(y, m, d) ==
  daysFromMarch(IF m <= 1 THEN y - 1 ELSE y, (m + 10) % 12, d)

\* Date.prototype.getDay(): 0 is Sunday; 1970-01-01 was a Thursday.
getDay(date) == (DaysFromCivil(date.y, date.m, date.d) + 4) % 7

\* ------------------------------------------------------------------------
\* dateUtils.ts
\* ------------------------------------------------------------------------
BE_OFFSET == 543

\* new Date().getFullYear(): the year of the real clock.
CurrentYear == 2026

isValidDate(date) == date # Null

formatThaiDate(date) ==
  IF ~isValidDate(date) THEN Empty
  ELSE padStart2(String(date.d)) \o <<"/">> \o padStart2(String(date.m + 1))
         \o <<"/">> \o String(date.y + BE_OFFSET)

formatThaiDateTime(date) ==
  IF ~isValidDate(date) THEN Empty
  ELSE padStart2(String(date.d)) \o <<"/">> \o padStart2(String(date.m + 1))
         \o <<"/">> \o String(date.y + BE_OFFSET)
         \o <<" ">> \o padStart2(String(date.h))
         \o <<":">> \o padStart2(String(date.mi))

\* A plausible slip: the month is written without its leading zero.
formatADDate_UnpaddedMonth(date) ==
  IF ~isValidDate(date) THEN Empty
  ELSE String(date.y) \o <<"-">> \o String(date.m + 1) \o <<"-">>
         \o padStart2(String(date.d))

\* A plausible slip: getMonth() is written as it is, without the + 1.
formatADDate_MonthIndex(date) ==
  IF ~isValidDate(date) THEN Empty
  ELSE String(date.y) \o <<"-">> \o padStart2(String(date.m)) \o <<"-">>
         \o padStart2(String(date.d))

formatADDate(date) ==
  IF ~isValidDate(date) THEN Empty
  ELSE String(date.y) \o <<"-">> \o padStart2(String(date.m + 1)) \o <<"-">>
         \o padStart2(String(date.d))

formatADDateTime(date) ==
  IF ~isValidDate(date) THEN Empty
  ELSE String(date.y) \o <<"-">> \o padStart2(String(date.m + 1)) \o <<"-">>
         \o padStart2(String(date.d))
         \o <<" ">> \o padStart2(String(date.h))
         \o <<":">> \o padStart2(String(date.mi))

\* A plausible slip: the date the constructor has made is returned without
\* being compared with the date asked for.
sameFields_Unchecked(date, year, monthIndex, day) == date

\* The date the constructor has made, if it is the date asked for: a day
\* the month does not have has been carried into another month.
sameFields(date, year, monthIndex, day) ==
  IF date.y # year \/ date.m # monthIndex \/ date.d # day THEN Null ELSE date

\* The plausibility window of parseThaiDate.
YearOutOfRange(yearAD) ==
  yearAD > CurrentYear + 100 \/ yearAD < CurrentYear - 100

\* parseThaiDate from the three parsed parts on.
thaiDateOf(day, month, yearBE) ==
  IF isNaN(day) \/ isNaN(month) \/ isNaN(yearBE) THEN Null
  ELSE IF month[1] < 1 \/ month[1] > 12 THEN Null
  ELSE IF day[1] < 1 \/ day[1] > 31 THEN Null
  ELSE IF YearOutOfRange(yearBE[1] - BE_OFFSET) THEN Null
  ELSE sameFields(NewDate(yearBE[1] - BE_OFFSET, month[1] - 1, day[1], 0, 0),
                  yearBE[1] - BE_OFFSET, month[1] - 1, day[1])

thaiDateOfParts(parts) ==
  IF Len(parts) # 3 THEN Null
  ELSE thaiDateOf(parseInt(parts[1]), parseInt(parts[2]), parseInt(parts[3]))

parseThaiDate(value) ==
  IF Len(value) # 10 THEN Null ELSE thaiDateOfParts(split(value, "/"))

\* The time part shared by parseThaiDateTime and parseADDateTime: hour and
\* minute are checked and set on the date.
setTime(date, hour, minute) ==
  IF isNaN(hour) \/ isNaN(minute) THEN Null
  ELSE IF hour[1] < 0 \/ hour[1] > 23 THEN Null
  ELSE IF minute[1] < 0 \/ minute[1] > 59 THEN Null
  ELSE [date EXCEPT !.h = hour[1], !.mi = minute[1]]

timeOfParts(date, tparts) ==
  setTime(date, parseInt(partAt(tparts, 1)), parseInt(partAt(tparts, 2)))

withTimeOf(date, timeStr) ==
  IF date = Null THEN Null ELSE timeOfParts(date, split(timeStr, ":"))

thaiDateTimeOfParts(parts) ==
  IF partAt(parts, 1) = Empty \/ partAt(parts, 2) = Empty THEN Null
  ELSE withTimeOf(parseThaiDate(partAt(parts, 1)), partAt(parts, 2))

parseThaiDateTime(value) ==
  IF Len(value) # 16 THEN Null ELSE thaiDateTimeOfParts(split(value, " "))

\* parseADDate from the three parsed parts on.
adDateOf(year, month, day) ==
  IF isNaN(day) \/ isNaN(month) \/ isNaN(year) THEN Null
  ELSE sameFields(NewDate(year[1], month[1] - 1, day[1], 0, 0),
                  year[1], month[1] - 1, day[1])

adDateOfParts(parts) ==
  IF Len(parts) # 3 THEN Null
  ELSE adDateOf(parseInt(parts[1]), parseInt(parts[2]), parseInt(parts[3]))

parseADDate(value) ==
  IF value = Empty \/ Len(value) # 10 THEN Null
  ELSE adDateOfParts(split(value, "-"))

adDateTimeOfParts(parts) ==
  IF partAt(parts, 1) = Empty \/ partAt(parts, 2) = Empty THEN Null
  ELSE withTimeOf(parseADDate(partAt(parts, 1)), partAt(parts, 2))

parseADDateTime(value) ==
  IF value = Empty \/ Len(value) # 16 THEN Null
  ELSE adDateTimeOfParts(split(value, " "))

getDaysInMonth(yearAD, monthIndex) == NewDate(yearAD, monthIndex + 1, 0, 0, 0).d

\* A plausible slip: the week is taken to start on Monday.
getFirstDayOfMonth_Monday(yearAD, monthIndex) ==
  (getDay(NewDate(yearAD, monthIndex, 1, 0, 0)) + 6) % 7

getFirstDayOfMonth(yearAD, monthIndex) == getDay(NewDate(yearAD, monthIndex, 1, 0, 0))

\* ------------------------------------------------------------------------
\* ThaiDatePicker: the helpers that pick the date or the date-time variant
\* ------------------------------------------------------------------------
formatThai(wt, d) == IF wt THEN formatThaiDateTime(d) ELSE formatThaiDate(d)

parseThai(wt, s) == IF wt THEN parseThaiDateTime(s) ELSE parseThaiDate(s)

formatAD(wt, d) == IF wt THEN formatADDateTime(d) ELSE formatADDate(d)

parseAD(wt, s) == IF wt THEN parseADDateTime(s) ELSE parseADDate(s)

\* ------------------------------------------------------------------------
\* Input sets of the model
\* ------------------------------------------------------------------------
\* Text written as a TLA+ string, turned into a sequence of characters.
Chars(str) ==
  CASE str = ""                 -> Empty
    [] str = "2026-02-18"       -> <<"2","0","2","6","-","0","2","-","1","8">>
    [] str = "2026-02-18 14:30" -> <<"2","0","2","6","-","0","2","-","1","8"," ","1","4",":","3","0">>
    [] str = "2025-02-30"       -> <<"2","0","2","5","-","0","2","-","3","0">>
    [] str = "1900-01-01"       -> <<"1","9","0","0","-","0","1","-","0","1">>
    [] str = "18022569"         -> <<"1","8","0","2","2","5","6","9">>
    [] str = "30022568"         -> <<"3","0","0","2","2","5","6","8">>
    [] str = "180225691430"     -> <<"1","8","0","2","2","5","6","9","1","4","3","0">>
    [] str = "180225692530"     -> <<"1","8","0","2","2","5","6","9","2","5","3","0">>
    [] str = "18/02/2569"       -> <<"1","8","/","0","2","/","2","5","6","9">>
    [] str = "18/02/2569 14:30" -> <<"1","8","/","0","2","/","2","5","6","9"," ","1","4",":","3","0">>
    [] str = "18/02/"           -> <<"1","8","/","0","2","/">>

\* The values a parent passes as the value prop of its own accord: none, a
\* date (a date-time with withTime), a date that does not exist, a date a
\* century and more before the clock's year, and with withTime a value
\* without its time.
ExternalValues(wt) ==
  IF wt THEN { Chars(""), Chars("2026-02-18 14:30"), Chars("2026-02-18") }
  ELSE { Chars(""), Chars("2026-02-18"), Chars("2025-02-30"), Chars("1900-01-01") }

\* The keystroke buffers (e.target.value): the cleared field, a field typed
\* up to the month, complete digit strings of an existing and of a missing
\* date (or hour), and buffers with a character the mask strips or cuts.
KeyBuffers(wt) ==
  { Empty, <<"x">>, Chars("18/02/"), Chars("18022569"), Chars("18/02/2569") \o <<"7">> }
    \cup (IF wt THEN { Chars("180225691430"), Chars("180225692530") }
          ELSE { Chars("30022568") })

\* The readings of the real clock (new Date()), all in CurrentYear.
NowSet == { [y |-> CurrentYear, m |-> 1, d |-> 28, h |-> 14, mi |-> 30] }

\* The day cells, hours and minutes a user picks.
DayChoices == {18, 31}

HourChoices == {0, 14}

MinuteChoices == {0, 30}

\* The calendar is browsed this many months away from the clock's month.
MaxViewDistance == 1

\* ------------------------------------------------------------------------
\* ThaiDatePicker: state
\* ------------------------------------------------------------------------
VARIABLES
  withTime,      \* prop withTime
  disabled,      \* prop disabled
  value,         \* prop value, owned by the parent
  syncedValue,   \* the value dependency the sync effect last ran with
  inputValue,    \* useState: the display text
  anchorEl,      \* useState: TRUE when the popover is anchored (open)
  viewDate,      \* useState: the Date shown by the calendar
  viewMode,      \* useState: "day", "month" or "year"
  selectedTime,  \* useState: [hour, minute]
  emitted,       \* the arguments of the onChange calls of the last step
  arg,           \* the argument of a function of dateUtils or of the mask
  res            \* its result

vars == <<withTime, disabled, value, syncedValue, inputValue, anchorEl,
          viewDate, viewMode, selectedTime, emitted, arg, res>>

\* The state of the component
compVars == <<withTime, disabled, value, syncedValue, inputValue, anchorEl,
              viewDate, viewMode, selectedTime, emitted>>

\* No function is being applied.
Idle == <<>>

\* No effect has run yet: the component has just been mounted.
Unmounted == <<"unmounted">>

timeOf(date) == [hour |-> date.h, minute |-> date.mi]

Init ==
  /\ withTime \in BOOLEAN
  /\ disabled \in BOOLEAN
  /\ value \in ExternalValues(withTime)
  /\ syncedValue = Unmounted
  /\ inputValue = Empty
  /\ anchorEl = FALSE
  /\ viewDate \in NowSet
  /\ viewMode = "day"
  /\ selectedTime = [hour |-> 0, minute |-> 0]
  /\ emitted = <<>>
  /\ arg = Idle
  /\ res = Idle

\* The effect of the last render is pending while the value prop differs
\* from the dependency it last ran with; events are handled once it has run.
EffectPending == syncedValue # value

\* ------------------------------------------------------------------------
\* useEffect: synchronisation of the value prop into the display text
\* ------------------------------------------------------------------------
isSameDate(d1, d2) ==
  IF d1 = Null /\ d2 = Null THEN TRUE
  ELSE IF d1 = Null \/ d2 = Null THEN FALSE
  ELSE d1 = d2

\* A plausible slip: the branch that clears the text is missing.
syncDecision_NeverClears(wt, v, iv, vd, st, currentInputDate, propDate) ==
  IF ~isSameDate(propDate, currentInputDate) /\ propDate # Null
  THEN <<formatThai(wt, propDate), propDate, timeOf(propDate)>>
  ELSE <<iv, vd, st>>

\* A plausible slip: the text is cleared whenever the value does not parse.
syncDecision_ClearsUnparsable(wt, v, iv, vd, st, currentInputDate, propDate) ==
  IF ~isSameDate(propDate, currentInputDate)
  THEN IF propDate # Null
       THEN <<formatThai(wt, propDate), propDate, timeOf(propDate)>>
       ELSE <<Empty, vd, st>>
  ELSE <<iv, vd, st>>

\* A plausible slip: the value is written back without comparing it with
\* the text.
syncDecision_NoComparison(wt, v, iv, vd, st, currentInputDate, propDate) ==
  IF propDate # Null
  THEN <<formatThai(wt, propDate), propDate, timeOf(propDate)>>
  ELSE IF v = Empty /\ currentInputDate # Null THEN <<Empty, vd, st>>
  ELSE <<iv, vd, st>>

\* A plausible slip: the selected time is not reset from the value.
syncDecision_KeepsTime(wt, v, iv, vd, st, currentInputDate, propDate) ==
  IF ~isSameDate(propDate, currentInputDate)
  THEN IF propDate # Null
       THEN <<formatThai(wt, propDate), propDate, st>>
       ELSE IF v = Empty THEN <<Empty, vd, st>> ELSE <<iv, vd, st>>
  ELSE <<iv, vd, st>>

\* A plausible slip: the effect moves the calendar but leaves the text.
syncDecision_KeepsText(wt, v, iv, vd, st, currentInputDate, propDate) ==
  IF ~isSameDate(propDate, currentInputDate)
  THEN IF propDate # Null
       THEN <<iv, propDate, timeOf(propDate)>>
       ELSE IF v = Empty THEN <<Empty, vd, st>> ELSE <<iv, vd, st>>
  ELSE <<iv, vd, st>>

\* The body of the effect once the text and the value are parsed.
syncDecision(wt, v, iv, vd, st, currentInputDate, propDate) ==
  IF ~isSameDate(propDate, currentInputDate)
  THEN IF propDate # Null
       THEN <<formatThai(wt, propDate), propDate, timeOf(propDate)>>
       ELSE IF v = Empty THEN <<Empty, vd, st>> ELSE <<iv, vd, st>>
  ELSE <<iv, vd, st>>

\* The state the effect leaves: <<inputValue, viewDate, selectedTime>>.
SyncResult(wt, v, iv, vd, st) ==
  syncDecision(wt, v, iv, vd, st, parseThai(wt, iv), parseAD(wt, v))

\* The state updates of the effect.
setSynced(r) ==
  /\ inputValue' = r[1]
  /\ viewDate' = r[2]
  /\ selectedTime' = r[3]

\* A plausible slip: the effect reports the value it has just read.
ValueSync_Emits ==
  /\ syncedValue # value
  /\ setSynced(SyncResult(withTime, value, inputValue, viewDate, selectedTime))
  /\ syncedValue' = value
  /\ emitted' = <<formatAD(withTime, parseAD(withTime, value))>>
  /\ UNCHANGED <<arg, res, withTime, disabled, value, anchorEl, viewMode>>

ValueSync ==
  /\ EffectPending
  /\ setSynced(SyncResult(withTime, value, inputValue, viewDate, selectedTime))
  /\ syncedValue' = value
  /\ emitted' = <<>>
  /\ UNCHANGED <<arg, res, withTime, disabled, value, anchorEl, viewMode>>

\* The parent passes a new value prop.
ExternalChange ==
  /\ ~EffectPending
  /\ \E v \in ExternalValues(withTime) :
       /\ v # value
       /\ value' = v
  /\ emitted' = <<>>
  /\ UNCHANGED <<arg, res, withTime, disabled, syncedValue, inputValue, anchorEl,
                 viewDate, viewMode, selectedTime>>

\* ------------------------------------------------------------------------
\* handleInputChange
\* ------------------------------------------------------------------------
maxDigits(wt) == IF wt THEN 12 ELSE 8

expectedLength(wt) == IF wt THEN 16 ELSE 10

isDigit(c) == c \in Digits

\* raw.slice(0, maxDigits) when raw is longer than maxDigits
truncated(raw, n) == IF Len(raw) > n THEN slice(raw, 0, n) ELSE raw

\* e.target.value.replace(/[^0-9]/g, ''), cut to maxDigits
rawDigits(wt, buf) == truncated(SelectSeq(buf, isDigit), maxDigits(wt))

\* A plausible slip: the first separator is written as soon as the day is
\* complete.
formatted_SlashAfterDay(wt, raw) ==
  (IF Len(raw) > 0 THEN slice(raw, 0, 2) ELSE Empty)
    \o (IF Len(raw) >= 2 THEN <<"/">> \o slice(raw, 2, 4) ELSE Empty)
    \o (IF Len(raw) >= 5 THEN <<"/">> \o slice(raw, 4, 8) ELSE Empty)
    \o (IF wt /\ Len(raw) >= 9 THEN <<" ">> \o slice(raw, 8, 10) ELSE Empty)
    \o (IF wt /\ Len(raw) >= 11 THEN <<":">> \o slice(raw, 10, 12) ELSE Empty)

\* The masking of the raw digits: each test appends its piece to what the
\* ones before it have written.
formatted(wt, raw) ==
  (IF Len(raw) > 0 THEN slice(raw, 0, 2) ELSE Empty)
    \o (IF Len(raw) >= 3 THEN <<"/">> \o slice(raw, 2, 4) ELSE Empty)
    \o (IF Len(raw) >= 5 THEN <<"/">> \o slice(raw, 4, 8) ELSE Empty)
    \o (IF wt /\ Len(raw) >= 9 THEN <<" ">> \o slice(raw, 8, 10) ELSE Empty)
    \o (IF wt /\ Len(raw) >= 11 THEN <<":">> \o slice(raw, 10, 12) ELSE Empty)

\* A plausible slip: every incomplete text is reported as cleared.
onChangeArgs_ClearsPartial(wt, raw, fmt) ==
  IF Len(fmt) = expectedLength(wt)
  THEN IF parseThai(wt, fmt) # Null
       THEN <<formatAD(wt, parseThai(wt, fmt))>>
       ELSE <<Empty>>
  ELSE <<Empty>>

\* A plausible slip: a complete text that fails to parse is not reported.
onChangeArgs_SilentInvalid(wt, raw, fmt) ==
  IF Len(fmt) = expectedLength(wt)
  THEN IF parseThai(wt, fmt) # Null
       THEN <<formatAD(wt, parseThai(wt, fmt))>>
       ELSE <<>>
  ELSE IF Len(raw) = 0 THEN <<Empty>> ELSE <<>>

\* The arguments of the onChange calls of handleInputChange, in order.
onChangeArgs(wt, raw, fmt) ==
  IF Len(fmt) = expectedLength(wt)
  THEN IF parseThai(wt, fmt) # Null
       THEN <<formatAD(wt, parseThai(wt, fmt))>>
       ELSE <<Empty>>
  ELSE IF Len(raw) = 0 THEN <<Empty>> ELSE <<>>

\* setInputValue(formatted), the onChange calls, which the parent echoes
\* into the value prop, and the calendar following a complete valid text.
typed(fmt, calls, parsedDate) ==
  /\ inputValue' = fmt
  /\ emitted' = calls
  /\ value' = IF calls = <<>> THEN value ELSE calls[Len(calls)]
  /\ IF Len(fmt) = expectedLength(withTime) /\ parsedDate # Null
     THEN /\ viewDate' = parsedDate
          /\ selectedTime' = timeOf(parsedDate)
     ELSE UNCHANGED <<viewDate, selectedTime>>
  /\ UNCHANGED <<arg, res, withTime, disabled, syncedValue, anchorEl, viewMode>>

masked(raw, fmt) ==
  typed(fmt, onChangeArgs(withTime, raw, fmt), parseThai(withTime, fmt))

stripped(raw) == masked(raw, formatted(withTime, raw))

handleInputChange(buf) == stripped(rawDigits(withTime, buf))

Keystroke ==
  /\ ~EffectPending
  /\ ~disabled
  /\ \E buf \in KeyBuffers(withTime) : handleInputChange(buf)

\* ------------------------------------------------------------------------
\* handleOpen, handleClose
\* ------------------------------------------------------------------------
\* The calendar shows the date of the value prop, or else the clock's.
showDate(date) ==
  /\ viewDate' = date
  /\ selectedTime' = timeOf(date)

opened(now, propDate) ==
  IF disabled
  THEN UNCHANGED <<anchorEl, viewDate, selectedTime>>
  ELSE /\ anchorEl' = TRUE
       /\ showDate(IF propDate # Null THEN propDate ELSE now)

\* A plausible slip: the popover opens in the mode it was closed in.
handleOpen_KeepsMode(now) ==
  /\ UNCHANGED viewMode
  /\ opened(now, parseAD(withTime, value))
  /\ emitted' = <<>>
  /\ UNCHANGED <<arg, res, withTime, disabled, value, syncedValue, inputValue>>

handleOpen(now) ==
  /\ viewMode' = "day"
  /\ opened(now, parseAD(withTime, value))
  /\ emitted' = <<>>
  /\ UNCHANGED <<arg, res, withTime, disabled, value, syncedValue, inputValue>>

\* The calendar button, clickable while the popover is closed.
Open ==
  /\ ~EffectPending
  /\ ~anchorEl
  /\ \E now \in NowSet : handleOpen(now)

\* A plausible slip: closing clears the text but never reverts it.
closeTextOf_KeepsTyped(wt, v, iv, propDate) ==
  IF propDate = Null /\ v = Empty THEN Empty ELSE iv

\* The display text handleClose leaves, given the text set before it in the
\* same handler: the value prop read is the one of the last render.
closeTextOf(wt, v, iv, propDate) ==
  IF propDate # Null THEN formatThai(wt, propDate)
  ELSE IF v = Empty THEN Empty
  ELSE iv

closeText(wt, v, iv) == closeTextOf(wt, v, iv, parseAD(wt, v))

handleClose ==
  /\ anchorEl' = FALSE
  /\ inputValue' = closeText(withTime, value, inputValue)
  /\ emitted' = <<>>
  /\ UNCHANGED <<arg, res, withTime, disabled, value, syncedValue, viewDate, viewMode,
                 selectedTime>>

\* Popover onClose (backdrop, Escape) and the confirmation button.
Close ==
  /\ ~EffectPending
  /\ anchorEl
  /\ handleClose

\* ------------------------------------------------------------------------
\* Calendar navigation
\* ------------------------------------------------------------------------
\* A plausible slip: the day of the date shown is kept when paging back.
prevDate_KeepsDay(vd, mode) ==
  IF mode = "day" THEN NewDate(vd.y, vd.m - 1, vd.d, 0, 0)
  ELSE IF mode = "month" THEN NewDate(vd.y - 1, vd.m, vd.d, 0, 0)
  ELSE NewDate(vd.y - 12, vd.m, vd.d, 0, 0)

\* The date handlePrev sets, for the date and the mode shown.
prevDate(vd, mode) ==
  IF mode = "day" THEN NewDate(vd.y, vd.m - 1, 1, 0, 0)
  ELSE IF mode = "month" THEN NewDate(vd.y - 1, vd.m, 1, 0, 0)
  ELSE NewDate(vd.y - 12, vd.m, 1, 0, 0)

handlePrev ==
  /\ viewDate' = prevDate(viewDate, viewMode)
  /\ emitted' = <<>>
  /\ UNCHANGED <<arg, res, withTime, disabled, value, syncedValue, inputValue, anchorEl,
                 viewMode, selectedTime>>

\* A plausible slip: a page of the year grid is taken for ten years.
nextDate_Decade(vd, mode) ==
  IF mode = "day" THEN NewDate(vd.y, vd.m + 1, 1, 0, 0)
  ELSE IF mode = "month" THEN NewDate(vd.y + 1, vd.m, 1, 0, 0)
  ELSE NewDate(vd.y + 10, vd.m, 1, 0, 0)

\* The date handleNext sets, for the date and the mode shown.
nextDate(vd, mode) ==
  IF mode = "day" THEN NewDate(vd.y, vd.m + 1, 1, 0, 0)
  ELSE IF mode = "month" THEN NewDate(vd.y + 1, vd.m, 1, 0, 0)
  ELSE NewDate(vd.y + 12, vd.m, 1, 0, 0)

handleNext ==
  /\ viewDate' = nextDate(viewDate, viewMode)
  /\ emitted' = <<>>
  /\ UNCHANGED <<arg, res, withTime, disabled, value, syncedValue, inputValue, anchorEl,
                 viewMode, selectedTime>>

\* The months between the month of a date and the clock's month.
monthIndex(date) == date.y * 12 + date.m

\* The calendar explored on its own is browsed this many years away from
\* the clock's year.
MaxViewYears == 24

\* The calendar is explored on its own.
Calendar == <<"calendar">>

InView(date) ==
  \E now \in NowSet :
    IF arg = Calendar
    THEN /\ date.y - now.y <= MaxViewYears
         /\ now.y - date.y <= MaxViewYears
    ELSE /\ monthIndex(date) - monthIndex(now) <= MaxViewDistance
         /\ monthIndex(now) - monthIndex(date) <= MaxViewDistance

Prev ==
  /\ ~EffectPending
  /\ anchorEl
  /\ handlePrev
  /\ InView(viewDate')

NextPage ==
  /\ ~EffectPending
  /\ anchorEl
  /\ handleNext
  /\ InView(viewDate')

\* onClick of the month label and of the year label
ClickMonthLabel ==
  /\ ~EffectPending
  /\ anchorEl
  /\ viewMode' = "month"
  /\ emitted' = <<>>
  /\ UNCHANGED <<arg, res, withTime, disabled, value, syncedValue, inputValue, anchorEl,
                 viewDate, selectedTime>>

ClickYearLabel ==
  /\ ~EffectPending
  /\ anchorEl
  /\ viewMode' = "year"
  /\ emitted' = <<>>
  /\ UNCHANGED <<arg, res, withTime, disabled, value, syncedValue, inputValue, anchorEl,
                 viewDate, selectedTime>>

currentYearBE == viewDate.y + BE_OFFSET

\* The BE year of cell i of the year grid.
yearCell(i) == (currentYearBE - 6) + i

\* A plausible slip: the year cell opens the year at its first month.
SelectYear_January ==
  /\ ~EffectPending
  /\ anchorEl
  /\ viewMode = "year"
  /\ \E i \in 0..11 :
       /\ viewDate' = NewDate(yearCell(i) - BE_OFFSET, 0, 1, 0, 0)
       /\ InView(viewDate')
  /\ viewMode' = "month"
  /\ emitted' = <<>>
  /\ UNCHANGED <<arg, res, withTime, disabled, value, syncedValue, inputValue, anchorEl,
                 selectedTime>>

\* onClick of a cell of the year grid
SelectYear ==
  /\ ~EffectPending
  /\ anchorEl
  /\ viewMode = "year"
  /\ \E i \in 0..11 :
       /\ viewDate' = NewDate(yearCell(i) - BE_OFFSET, viewDate.m, 1, 0, 0)
       /\ InView(viewDate')
  /\ viewMode' = "month"
  /\ emitted' = <<>>
  /\ UNCHANGED <<arg, res, withTime, disabled, value, syncedValue, inputValue, anchorEl,
                 selectedTime>>

\* A plausible slip: the month cell closes the popover, as a day cell does.
SelectMonth_Closes ==
  /\ ~EffectPending
  /\ anchorEl
  /\ viewMode = "month"
  /\ \E i \in 0..11 :
       /\ viewDate' = NewDate(viewDate.y, i, 1, 0, 0)
       /\ InView(viewDate')
  /\ viewMode' = "day"
  /\ anchorEl' = FALSE
  /\ emitted' = <<>>
  /\ UNCHANGED <<arg, res, withTime, disabled, value, syncedValue, inputValue,
                 selectedTime>>

\* onClick of a cell of the month grid
SelectMonth ==
  /\ ~EffectPending
  /\ anchorEl
  /\ viewMode = "month"
  /\ \E i \in 0..11 :
       /\ viewDate' = NewDate(viewDate.y, i, 1, 0, 0)
       /\ InView(viewDate')
  /\ viewMode' = "day"
  /\ emitted' = <<>>
  /\ UNCHANGED <<arg, res, withTime, disabled, value, syncedValue, inputValue, anchorEl,
                 selectedTime>>

\* ------------------------------------------------------------------------
\* Calendar grid
\* ------------------------------------------------------------------------
\* The cells of the day grid: 0 stands for a null placeholder.
gridOf(firstDay, daysInMonth) ==
  [i \in 1..(firstDay + daysInMonth) |->
     IF i <= firstDay THEN 0 ELSE i - firstDay]

calendarGrid(vd) ==
  gridOf(getFirstDayOfMonth(vd.y, vd.m), getDaysInMonth(vd.y, vd.m))

\* The days the grid offers.
daysOf(grid) == { grid[i] : i \in DOMAIN grid } \ {0}

gridDays(vd) == daysOf(calendarGrid(vd))

\* ------------------------------------------------------------------------
\* handleDateSelect, handleTimeChange, handleToday
\* ------------------------------------------------------------------------
\* onChange?.(adString): the parent echoes it into the value prop.
onChange(adString) ==
  /\ emitted' = <<adString>>
  /\ value' = adString

\* A plausible slip: handleClose is called with withTime as well.
shown_AlwaysCloses(thai) ==
  /\ anchorEl' = FALSE
  /\ inputValue' = closeText(withTime, value, thai)

\* setInputValue(thai), followed without withTime by handleClose, whose
\* own setInputValue is the one that stays.
shown(thai) ==
  IF ~withTime
  THEN /\ anchorEl' = FALSE
       /\ inputValue' = closeText(withTime, value, thai)
  ELSE /\ inputValue' = thai
       /\ UNCHANGED anchorEl

picked(newDate) ==
  /\ onChange(formatAD(withTime, newDate))
  /\ shown(formatThai(withTime, newDate))

\* A plausible slip: the selected time is left out of the new date.
handleDateSelect_Midnight(day) ==
  /\ picked(NewDate(viewDate.y, viewDate.m, day, 0, 0))
  /\ UNCHANGED <<arg, res, withTime, disabled, syncedValue, viewDate, viewMode,
                 selectedTime>>

handleDateSelect(day) ==
  /\ picked(NewDate(viewDate.y, viewDate.m, day,
                    IF withTime THEN selectedTime.hour ELSE 0,
                    IF withTime THEN selectedTime.minute ELSE 0))
  /\ UNCHANGED <<arg, res, withTime, disabled, syncedValue, viewDate, viewMode,
                 selectedTime>>

\* onClick of a day cell, rendered in the day view only
SelectDay ==
  /\ ~EffectPending
  /\ anchorEl
  /\ viewMode = "day"
  /\ \E day \in DayChoices \cap gridDays(viewDate) : handleDateSelect(day)

retimed(newDate) ==
  /\ onChange(formatAD(withTime, newDate))
  /\ inputValue' = formatThai(withTime, newDate)

\* A plausible slip: setMinutes is missing.
timeChanged_HourOnly(newTime, propDate) ==
  /\ selectedTime' = newTime
  /\ IF propDate # Null
     THEN retimed([propDate EXCEPT !.h = newTime.hour])
     ELSE /\ emitted' = <<>>
          /\ UNCHANGED <<value, inputValue>>

timeChanged(newTime, propDate) ==
  /\ selectedTime' = newTime
  /\ IF propDate # Null
     THEN retimed([propDate EXCEPT !.h = newTime.hour, !.mi = newTime.minute])
     ELSE /\ emitted' = <<>>
          /\ UNCHANGED <<value, inputValue>>

handleTimeChange(type, val) ==
  /\ timeChanged(IF type = "hour" THEN [selectedTime EXCEPT !.hour = val]
                 ELSE [selectedTime EXCEPT !.minute = val],
                 parseAD(withTime, value))
  /\ UNCHANGED <<arg, res, withTime, disabled, syncedValue, anchorEl, viewDate,
                 viewMode>>

\* onChange of the hour and of the minute select, rendered with withTime
SelectTime ==
  /\ ~EffectPending
  /\ anchorEl
  /\ withTime
  /\ \/ \E h \in HourChoices : handleTimeChange("hour", h)
     \/ \E mi \in MinuteChoices : handleTimeChange("minute", mi)

handleToday(now) ==
  /\ picked(now)
  /\ showDate(now)
  /\ UNCHANGED <<arg, res, withTime, disabled, syncedValue, viewMode>>

Today ==
  /\ ~EffectPending
  /\ anchorEl
  /\ \E now \in NowSet : handleToday(now)

Next ==
  \/ ValueSync
  \/ ExternalChange
  \/ Keystroke
  \/ Open
  \/ Close
  \/ Prev
  \/ NextPage
  \/ ClickMonthLabel
  \/ ClickYearLabel
  \/ SelectYear
  \/ SelectMonth
  \/ SelectDay
  \/ SelectTime
  \/ Today

Spec == Init /\ [][Next]_vars

\* ------------------------------------------------------------------------
\* Properties of the value synchronisation and of typing
\* ------------------------------------------------------------------------
\* A step of the value-sync effect: it is pending, and it records the value
\* it ran with.
SyncStep == EffectPending /\ syncedValue' = value

\* The value prop has gone from a non-empty string to the empty string and
\* the effect has not yet run for it.
ClearPending ==
  /\ EffectPending
  /\ syncedValue # Unmounted
  /\ syncedValue # Empty
  /\ value = Empty

\* The display text is of full length for the mode.
Complete(wt, iv) == Len(iv) = expectedLength(wt)

C2_Theorem ==
  [][/\ (SyncStep /\ value # Empty /\ parseAD(withTime, value) = Null)
          => inputValue' = inputValue
     /\ (SyncStep /\ inputValue # Empty /\ inputValue' = Empty)
          => value = Empty]_vars

\* A non-empty value that does not parse is pending while a text is shown.
C2_Witness ==
  /\ EffectPending
  /\ value # Empty
  /\ parseAD(withTime, value) = Null
  /\ inputValue # Empty

\* C3: when the display text and the value prop decode to the same instant
\* (all of year, month, day, hour, minute), the sync pass changes none of
\* inputValue, viewDate and selectedTime.
C3_Theorem ==
  [][(/\ SyncStep
      /\ parseThai(withTime, inputValue) # Null
      /\ parseThai(withTime, inputValue) = parseAD(withTime, value))
       => UNCHANGED <<inputValue, viewDate, selectedTime>>]_vars

\* The value pending is the instant of the text, and the calendar shows
\* another date than that instant, so that a rewrite would be visible.
C3_Witness ==
  /\ EffectPending
  /\ parseThai(withTime, inputValue) # Null
  /\ parseThai(withTime, inputValue) = parseAD(withTime, value)
  /\ viewDate # parseAD(withTime, value)

\* C4: when the value prop decodes to an instant that differs from what the
\* display text decodes to (a partial or invalid text decodes to nothing),
\* the sync pass sets inputValue to formatThai of that instant, viewDate to
\* its year and month, and selectedTime to its hour and minute.
C4_Theorem ==
  [][(/\ SyncStep
      /\ parseAD(withTime, value) # Null
      /\ parseThai(withTime, inputValue) # parseAD(withTime, value))
       => LET propDate == parseAD(withTime, value)
          IN  /\ inputValue' = formatThai(withTime, propDate)
              /\ viewDate'.y = propDate.y
              /\ viewDate'.m = propDate.m
              /\ selectedTime' = [hour |-> propDate.h, minute |-> propDate.mi]]_vars

\* A parsable value is pending while a partial text is shown and the
\* selected time is not that of the value.
C4_Witness ==
  /\ EffectPending
  /\ parseAD(withTime, value) # Null
  /\ inputValue # Empty
  /\ ~Complete(withTime, inputValue)
  /\ selectedTime # timeOf(parseAD(withTime, value))

\* C5: emission and synchronisation never loop: a sync pass emits nothing
\* and leaves the value prop alone, no effect is pending after it, and it
\* leaves a state that a further pass with the same value would not change.
C5_Theorem ==
  [][SyncStep =>
       /\ emitted' = <<>>
       /\ value' = value
       /\ ~EffectPending'
       /\ SyncResult(withTime', value', inputValue', viewDate', selectedTime')
            = <<inputValue', viewDate', selectedTime'>>]_vars

\* The pass pending is the one the echo of an emitted value has triggered.
C5_Witness ==
  /\ EffectPending
  /\ emitted # <<>>
  /\ emitted[1] = value
  /\ parseAD(withTime, value) # Null

\* C6: a keystroke whose masked text is non-empty and shorter than the full
\* length of the mode emits nothing and leaves value, viewDate and
\* selectedTime unchanged; with withTime this includes a date typed in full
\* without its time.
C6_Theorem ==
  [][(/\ Keystroke
      /\ inputValue' # Empty
      /\ Len(inputValue') < expectedLength(withTime))
       => /\ emitted' = <<>>
          /\ UNCHANGED <<value, syncedValue, viewDate, selectedTime,
                         anchorEl, viewMode>>]_vars

\* With withTime, a date typed in full without its time is displayed over a
\* value that has not been touched.
C6_Witness ==
  /\ withTime
  /\ inputValue = Chars("18/02/2569")
  /\ emitted = <<>>
  /\ ~EffectPending
  /\ value = Chars("2026-02-18 14:30")

RECURSIVE Number(_)
Number(ds) ==
  IF ds = <<>> THEN 0
  ELSE 10 * Number(SubSeq(ds, 1, Len(ds) - 1)) + DigitVal(ds[Len(ds)])

\* C8: a keystroke that completes the masked text with a text parseThai
\* accepts emits one string, YYYY-MM-DD with the day and the month as typed
\* and the year the typed BE year minus 543, followed with withTime by the
\* hour and minute as typed; viewDate and selectedTime are set to that
\* instant.  18/02/2569 emits 2026-02-18, 18/02/2569 14:30 emits
\* 2026-02-18 14:30.
C8_Theorem ==
  [][(/\ Keystroke
      /\ Complete(withTime, inputValue')
      /\ parseThai(withTime, inputValue') # Null)
       => LET iv == inputValue'
              em == value'
          IN  /\ emitted' = <<em>>
              /\ Len(em) = expectedLength(withTime)
              /\ SubSeq(em, 9, 10) = SubSeq(iv, 1, 2)
              /\ SubSeq(em, 6, 7) = SubSeq(iv, 4, 5)
              /\ Number(SubSeq(em, 1, 4)) = Number(SubSeq(iv, 7, 10)) - 543
              /\ em[5] = "-" /\ em[8] = "-"
              /\ withTime => (em[11] = " " /\ SubSeq(em, 12, 16) = SubSeq(iv, 12, 16))
              /\ viewDate' = [y  |-> Number(SubSeq(em, 1, 4)),
                              m  |-> Number(SubSeq(em, 6, 7)) - 1,
                              d  |-> Number(SubSeq(em, 9, 10)),
                              h  |-> IF withTime THEN Number(SubSeq(em, 12, 13)) ELSE 0,
                              mi |-> IF withTime THEN Number(SubSeq(em, 15, 16)) ELSE 0]
              /\ selectedTime' = [hour |-> viewDate'.h, minute |-> viewDate'.mi]
              /\ (iv = Chars("18/02/2569")) => (em = Chars("2026-02-18"))
              /\ (iv = Chars("18/02/2569 14:30")) => (em = Chars("2026-02-18 14:30"))]_vars

\* 18/02/2569 14:30 has just been typed into the closed control and
\* 2026-02-18 14:30 emitted over another value.
C8_Witness ==
  /\ withTime
  /\ ~anchorEl
  /\ inputValue = Chars("18/02/2569 14:30")
  /\ emitted = <<Chars("2026-02-18 14:30")>>
  /\ EffectPending
  /\ viewDate = [y |-> 2026, m |-> 1, d |-> 18, h |-> 14, mi |-> 30]

\* ------------------------------------------------------------------------
\* The input mask as a function of the keystroke buffer
\* ------------------------------------------------------------------------
\* Digits typed on, past the twelve the mask keeps.
MaskDigits ==
  { <<"1","8","0","2","2","5","6","9","1","4","3","0","7","7","7","7">>,
    <<"3","0","0","2","2","5","6","8","2","5","6","1","0","0","0","0">> }

\* The longest run of digits typed.
MaxBufDigits == 13

\* Characters other than digits that a buffer holds.
JunkChars == {"/", " ", ":", "x"}

insertAt(s, j, c) == SubSeq(s, 1, j) \o <<c>> \o SubSeq(s, j + 1, Len(s))

\* Every prefix of the typed digits, bare and with one other character at
\* any place.
MaskBuffers ==
  LET prefixes == UNION { { SubSeq(t, 1, k) : k \in 0..MaxBufDigits } : t \in MaskDigits }
  IN  prefixes \cup
      UNION { { insertAt(b, j, c) : j \in 0..Len(b), c \in JunkChars } : b \in prefixes }

\* The state of a component no event reaches.
ComponentAtRest ==
  /\ withTime = FALSE
  /\ disabled = FALSE
  /\ value = Empty
  /\ syncedValue = Empty
  /\ inputValue = Empty
  /\ anchorEl = FALSE
  /\ viewDate \in NowSet
  /\ viewMode = "day"
  /\ selectedTime = [hour |-> 0, minute |-> 0]
  /\ emitted = <<>>

InitMask ==
  /\ ComponentAtRest
  /\ arg \in [wt : BOOLEAN, buf : MaskBuffers]
  /\ res = Idle

\* Lines 130-144 of handleInputChange applied to the buffer.
ApplyMask ==
  /\ res = Idle
  /\ res' = <<"masked", formatted(arg.wt, rawDigits(arg.wt, arg.buf))>>
  /\ UNCHANGED <<arg, compVars>>

NextMask == ApplyMask

SpecMask == InitMask /\ [][NextMask]_vars

\* The places of the separators in a masked text, and the separators.
SeparatorPlaces == {3, 6, 11, 14}

separatorAt(p) == IF p = 11 THEN " " ELSE IF p = 14 THEN ":" ELSE "/"

\* C9: the masked text is the re-punctuation of the digits of the buffer,
\* cut to the first 8 (12 with withTime): every character at place 3, 6, 11,
\* 14 is the separator '/', '/', ' ', ':' and the other characters are the
\* digits in order; a separator is present once a digit follows it (3, 5, 9,
\* 11 digits).  The text is never longer than 10 (16) characters and has
\* that length exactly when 8 (12) digits are kept.
C9_Theorem ==
  (res # Idle /\ res[1] = "masked") =>
    LET wt    == arg.wt
        out   == res[2]
        ds    == SelectSeq(arg.buf, LAMBDA c : c \in Digits)
        most  == IF wt THEN 12 ELSE 8
        full  == IF wt THEN 16 ELSE 10
        n     == IF Len(ds) > most THEN most ELSE Len(ds)
        len   == n + (IF n >= 3 THEN 1 ELSE 0) + (IF n >= 5 THEN 1 ELSE 0)
                   + (IF n >= 9 THEN 1 ELSE 0) + (IF n >= 11 THEN 1 ELSE 0)
    IN  /\ Len(out) = len
        /\ \A p \in 1..len :
             out[p] = IF p \in SeparatorPlaces THEN separatorAt(p)
                      ELSE ds[p - Cardinality({q \in SeparatorPlaces : q < p})]
        /\ Len(out) <= full
        /\ (Len(out) = full) <=> (n = most)
        /\ (wt /\ SubSeq(ds, 1, n) = Chars("180225691430"))
             => out = Chars("18/02/2569 14:30")

\* Thirteen digits and a letter have been masked, with withTime, to
\* 18/02/2569 14:30.
C9_Witness ==
  /\ res # Idle
  /\ res[1] = "masked"
  /\ arg.wt
  /\ Len(arg.buf) = 14
  /\ res[2] = Chars("18/02/2569 14:30")

\* ------------------------------------------------------------------------
\* Formatting and parsing as functions of the instant
\* ------------------------------------------------------------------------
CodecYears ==
  { 999, 1000, CurrentYear - 101, CurrentYear - 100, 2024, CurrentYear,
    CurrentYear + 100, CurrentYear + 101, 9999, 10000 }

CodecDays == {1, 9, 10, 28, 29, 30, 31}

CodecHours == {0, 9, 23}

CodecMinutes == {0, 5, 59}

\* The dates that exist, at midnight and with withTime at any time.
Instants(wt) ==
  { x \in [y : CodecYears, m : 0..11, d : CodecDays,
           h : IF wt THEN CodecHours ELSE {0},
           mi : IF wt THEN CodecMinutes ELSE {0}] :
      x.d <= MonthLength(x.y, x.m) }

InitCodec ==
  /\ ComponentAtRest
  /\ \E wt \in BOOLEAN : \E x \in Instants(wt) : arg = [wt |-> wt, x |-> x]
  /\ res = Idle

\* formatAD and formatThai of the instant
Format ==
  /\ res = Idle
  /\ res' = <<"formatted", formatAD(arg.wt, arg.x), formatThai(arg.wt, arg.x)>>
  /\ UNCHANGED <<arg, compVars>>

\* parseAD and parseThai of the two strings
Parse ==
  /\ res # Idle
  /\ res[1] = "formatted"
  /\ res' = <<"parsed", res[2], res[3],
              parseAD(arg.wt, res[2]), parseThai(arg.wt, res[3])>>
  /\ UNCHANGED <<arg, compVars>>

NextCodec == Format \/ Parse

SpecCodec == InitCodec /\ [][NextCodec]_vars

Parsed == res # Idle /\ res[1] = "parsed"

Text4(n) == [i \in 1..(4 - Len(String(n))) |-> "0"] \o String(n)

\* The AD years of the strings parsed: the first year the Date constructor
\* takes as it is written and one it does not, a century year that is not a
\* leap year, the edges of the window of parseThaiDate, a leap year and the
\* clock's year.
ParseYears ==
  { 50, 100, 1900, CurrentYear - 101, CurrentYear - 100, 2024, 2025,
    CurrentYear, CurrentYear + 100, CurrentYear + 101 }

\* Month, day, hour and minute fields, written with two digits.
MonthTexts == { padStart2(String(n)) : n \in {0, 1, 2, 4, 12, 13} }

DayTexts == { padStart2(String(n)) : n \in {0, 1, 28, 29, 30, 31, 32} }

HourTexts == { padStart2(String(n)) : n \in {0, 23, 24} }

MinuteTexts == { padStart2(String(n)) : n \in {0, 59, 60} }

\* The months and days of the strings that have a time.
TimedMonthTexts == { padStart2(String(n)) : n \in {2, 13} }

TimedDayTexts == { padStart2(String(n)) : n \in {18, 29, 30} }

\* YYYY-MM-DD strings, with AD years.
CanonicalDates(years, months, days) ==
  { Text4(y) \o <<"-">> \o m \o <<"-">> \o d :
      y \in years, m \in months, d \in days }

\* DD/MM/YYYY strings, with the BE years of the same AD years.
DisplayDates(years, months, days) ==
  { d \o <<"/">> \o m \o <<"/">> \o Text4(y + BE_OFFSET) :
      y \in years, m \in months, d \in days }

\* A date string followed by ' HH:mm'.
WithTimes(dates) ==
  { ds \o <<" ">> \o h \o <<":">> \o mi :
      ds \in dates, h \in HourTexts, mi \in MinuteTexts }

\* The strings of the right shape, for a date and for a date with a time.
ShapedStrings(wt) ==
  IF wt
  THEN WithTimes(CanonicalDates({2024, CurrentYear}, TimedMonthTexts, TimedDayTexts)
                   \cup DisplayDates({2024, CurrentYear}, TimedMonthTexts, TimedDayTexts))
  ELSE CanonicalDates(ParseYears, MonthTexts, DayTexts)
         \cup DisplayDates(ParseYears, MonthTexts, DayTexts)

\* Characters that are no digits, the separators among them.
ForeignChars == {"x", " ", "+", "-", "/", ":"}

replaceAt(s, p, c) == [s EXCEPT ![p] = c]

removeAt(s, p) == SubSeq(s, 1, p - 1) \o SubSeq(s, p + 1, Len(s))

\* The strings that are damaged.
BaseStrings(wt) ==
  IF wt THEN { Chars("2026-02-18 14:30"), Chars("18/02/2569 14:30") }
  ELSE { Chars("2026-02-18"), Chars("18/02/2569") }

\* A string with one character replaced by a foreign one, with one
\* character removed, with one more character, with a digit moved from one
\* field to the next, and the empty string.
DamagedStrings(wt) ==
  UNION { { replaceAt(b, p, c) : p \in 1..Len(b), c \in ForeignChars }
            \cup { removeAt(b, p) : p \in 1..Len(b) }
            \cup { b \o <<c>> : c \in ForeignChars \cup {"7"} }
            \cup { insertAt(removeAt(b, 6), 7, "0") }
          : b \in BaseStrings(wt) }
    \cup { Empty }

ParseInputs(wt) == ShapedStrings(wt) \cup DamagedStrings(wt)

InitParse ==
  /\ ComponentAtRest
  /\ \E wt \in BOOLEAN : \E s \in ParseInputs(wt) : arg = [wt |-> wt, s |-> s]
  /\ res = Idle

\* parseAD of the string
ParseCanonical ==
  /\ res = Idle
  /\ res' = <<"parseAD", parseAD(arg.wt, arg.s)>>
  /\ UNCHANGED <<arg, compVars>>

\* parseThai of the string
ParseDisplay ==
  /\ res = Idle
  /\ res' = <<"parseThai", parseThai(arg.wt, arg.s)>>
  /\ UNCHANGED <<arg, compVars>>

\* formatAD of the instant parseAD has returned
FormatParsed ==
  /\ res # Idle
  /\ res[1] = "parseAD"
  /\ res[2] # Null
  /\ res' = <<"formatAD", res[2], formatAD(arg.wt, res[2])>>
  /\ UNCHANGED <<arg, compVars>>

NextParse == ParseCanonical \/ ParseDisplay \/ FormatParsed

SpecParse == InitParse /\ [][NextParse]_vars

\* The shape of a string: the date separator at places sep1 and sep2 of the
\* first ten characters, digits at the others, and with a time a blank, two
\* digits, a colon and two digits after them.
Shaped(wt, s, sep, sep1, sep2) ==
  /\ Len(s) = (IF wt THEN 16 ELSE 10)
  /\ \A p \in 1..10 :
       IF p \in {sep1, sep2} THEN s[p] = sep ELSE s[p] \in Digits
  /\ wt => /\ s[11] = " "
           /\ s[14] = ":"
           /\ \A p \in {12, 13, 15, 16} : s[p] \in Digits

\* YYYY-MM-DD, followed with a time by ' HH:mm'
CanonicalShape(wt, s) == Shaped(wt, s, "-", 5, 8)

\* DD/MM/YYYY, followed with a time by ' HH:mm'
DisplayShape(wt, s) == Shaped(wt, s, "/", 3, 6)

ParsedCanonical == res # Idle /\ res[1] = "parseAD"

ParsedDisplay == res # Idle /\ res[1] = "parseThai"

Reformatted == res # Idle /\ res[1] = "formatAD"

\* C11: for every non-empty string s that parseAD accepts,
\* formatAD(parseAD(s)) is s, character for character.
C11_Claim ==
  Reformatted => res[3] = arg.s

\* What does hold: a string of the shape YYYY-MM-DD (and ' HH:mm') whose
\* year does not start with 0 and that parseAD accepts is written back as it
\* was; 0100-01-01 is accepted and written back as 100-01-01.
C11_ShapedFidelity ==
  (Reformatted /\ CanonicalShape(arg.wt, arg.s) /\ arg.s[1] # "0")
    => res[3] = arg.s

\* 2026-02-1x has been accepted and written back as 2026-02-01.
C11_Diverges ==
  /\ Reformatted
  /\ arg.s = replaceAt(Chars("2026-02-18"), 10, "x")
  /\ res[3] = replaceAt(replaceAt(Chars("2026-02-18"), 9, "0"), 10, "1")

\* C12: parseAD and parseThai return null for every string that has not
\* the exact length, has not exactly the segments YYYY-MM-DD or DD/MM/YYYY
\* (and ' HH:mm' with a time), or has a character that is no digit in a
\* numeric field.
C12_Claim ==
  /\ (ParsedCanonical /\ ~CanonicalShape(arg.wt, arg.s)) => res[2] = Null
  /\ (ParsedDisplay /\ ~DisplayShape(arg.wt, arg.s)) => res[2] = Null

\* What does hold: a string that has not the exact length is rejected.
C12_LengthRejected ==
  ((ParsedCanonical \/ ParsedDisplay) /\ Len(arg.s) # expectedLength(arg.wt))
    => res[2] = Null

\* 1x/02/2569 has been accepted by parseThai as 1 February 2026.
C12_Diverges ==
  /\ ParsedDisplay
  /\ arg.s = replaceAt(Chars("18/02/2569"), 2, "x")
  /\ res[2] = [y |-> 2026, m |-> 1, d |-> 1, h |-> 0, mi |-> 0]

\* The number written at places a..b of a string.
field(s, a, b) == Number(SubSeq(s, a, b))

\* The AD year, the month (1 is January) and the day a shaped string names.
canonicalYear(s) == field(s, 1, 4)

canonicalMonth(s) == field(s, 6, 7)

canonicalDay(s) == field(s, 9, 10)

displayYear(s) == field(s, 7, 10) - 543

displayMonth(s) == field(s, 4, 5)

displayDay(s) == field(s, 1, 2)

\* The Gregorian calendar: the days of a month, with the leap-year rule.
GregorianDays(y, m) ==
  CASE m \in {4, 6, 9, 11} -> 30
    [] m = 2 -> IF y % 400 = 0 \/ (y % 4 = 0 /\ y % 100 # 0) THEN 29 ELSE 28
    [] OTHER -> 31

RealDate(y, m, d) ==
  /\ m >= 1
  /\ m <= 12
  /\ d >= 1
  /\ d <= GregorianDays(y, m)

\* The hour or the minute of a shaped string with a time is out of range.
BadTime(wt, s) == wt /\ (field(s, 12, 13) > 23 \/ field(s, 15, 16) > 59)

\* C13: for every string of the right shape whose year, month and day are
\* no real Gregorian date (month outside 1-12, day 0, day past the end of
\* the month under the leap-year rule), parseAD and parseThai return null;
\* with a time they also return null for an hour above 23 or a minute above
\* 59.  2025-02-30 and 30/02/2568 are rejected.
C13_Theorem ==
  /\ (/\ ParsedCanonical
      /\ CanonicalShape(arg.wt, arg.s)
      /\ \/ ~RealDate(canonicalYear(arg.s), canonicalMonth(arg.s), canonicalDay(arg.s))
         \/ BadTime(arg.wt, arg.s))
       => res[2] = Null
  /\ (/\ ParsedDisplay
      /\ DisplayShape(arg.wt, arg.s)
      /\ \/ ~RealDate(displayYear(arg.s), displayMonth(arg.s), displayDay(arg.s))
         \/ BadTime(arg.wt, arg.s))
       => res[2] = Null
  /\ (ParsedCanonical /\ arg.s = Chars("2025-02-30")) => res[2] = Null
  /\ (ParsedDisplay /\ arg.s = <<"3","0","/","0","2","/","2","5","6","8">>)
       => res[2] = Null

\* parseAD has been applied to 2025-02-30 and has returned null.
C13_Witness ==
  /\ ParsedCanonical
  /\ ~arg.wt
  /\ arg.s = Chars("2025-02-30")
  /\ res[2] = Null

\* A string of the right shape names a real date, at a time in range.
RealCanonical(wt, s) ==
  /\ CanonicalShape(wt, s)
  /\ RealDate(canonicalYear(s), canonicalMonth(s), canonicalDay(s))
  /\ ~BadTime(wt, s)

RealDisplay(wt, s) ==
  /\ DisplayShape(wt, s)
  /\ RealDate(displayYear(s), displayMonth(s), displayDay(s))
  /\ ~BadTime(wt, s)

\* C14: with the clock's year Y, parseThai of a string that is valid but
\* for its year returns an instant exactly when the AD year (BE year minus
\* 543) is in Y-100..Y+100, and parseAD accepts a valid date whatever its
\* distance from Y.
C14_Claim ==
  /\ (ParsedDisplay /\ RealDisplay(arg.wt, arg.s)) =>
       (res[2] # Null <=> /\ displayYear(arg.s) >= CurrentYear - 100
                          /\ displayYear(arg.s) <= CurrentYear + 100)
  /\ (ParsedCanonical /\ RealCanonical(arg.wt, arg.s)) => res[2] # Null

\* What does hold: the window of parseThai is as stated, and parseAD
\* accepts the valid dates of the years from 100 on.
C14_Window ==
  /\ (ParsedDisplay /\ RealDisplay(arg.wt, arg.s)) =>
       (res[2] # Null <=> /\ displayYear(arg.s) >= CurrentYear - 100
                          /\ displayYear(arg.s) <= CurrentYear + 100)
  /\ (/\ ParsedCanonical
      /\ RealCanonical(arg.wt, arg.s)
      /\ canonicalYear(arg.s) >= 100) => res[2] # Null

\* parseAD has been applied to 0050-01-01 and has returned null: the Date
\* constructor takes the year 50 for 1950.
C14_Diverges ==
  /\ ParsedCanonical
  /\ arg.s = <<"0","0","5","0","-","0","1","-","0","1">>
  /\ res[2] = Null

\* ------------------------------------------------------------------------
\* The calendar of the open popover, explored on its own
\* ------------------------------------------------------------------------
\* The instants of the value prop the popover is opened on: the last day of
\* a year, the last day of the January of a leap year, a day in February.
NavInstants(wt) ==
  { [y |-> CurrentYear, m |-> 11, d |-> 31, h |-> IF wt THEN 14 ELSE 0, mi |-> IF wt THEN 30 ELSE 0],
    [y |-> 2024, m |-> 0, d |-> 31, h |-> IF wt THEN 23 ELSE 0, mi |-> IF wt THEN 59 ELSE 0],
    [y |-> CurrentYear, m |-> 1, d |-> 18, h |-> 0, mi |-> 0] }

NavValues(wt) == { Empty } \cup { formatAD(wt, x) : x \in NavInstants(wt) }

\* The component once its first effect has run and handleOpen has opened
\* the popover.
OpenedOn(wt, v, now) ==
  /\ withTime = wt
  /\ disabled = FALSE
  /\ value = v
  /\ syncedValue = v
  /\ inputValue = formatThai(wt, parseAD(wt, v))
  /\ anchorEl = TRUE
  /\ viewDate = (IF parseAD(wt, v) # Null THEN parseAD(wt, v) ELSE now)
  /\ viewMode = "day"
  /\ selectedTime = timeOf(IF parseAD(wt, v) # Null THEN parseAD(wt, v) ELSE now)
  /\ emitted = <<>>

InitNav ==
  /\ \E wt \in BOOLEAN : \E v \in NavValues(wt) : \E now \in NowSet :
       OpenedOn(wt, v, now)
  /\ arg = Calendar
  /\ res = Idle

NextNav ==
  \/ Prev
  \/ NextPage
  \/ ClickMonthLabel
  \/ ClickYearLabel
  \/ SelectYear
  \/ SelectMonth

SpecNav == InitNav /\ [][NextNav]_vars

ViewModes == {"day", "month", "year"}

\* C15: a click on the month label sets viewMode to month and one on the
\* year label sets it to year, from any mode, and leaves viewDate as it is;
\* a click on a cell of the year grid, shown in year mode, sets viewMode to
\* month and the year of viewDate to the BE year of the cell minus 543, one
\* of the twelve from the BE year shown minus 6 on, with the month unchanged;
\* a click on cell i of the month grid, shown in month mode, sets viewMode
\* to day and the month of viewDate to i with the year unchanged.  viewMode
\* is always day, month or year.
C15_Theorem ==
  [][/\ ClickMonthLabel => (viewMode' = "month" /\ viewDate' = viewDate)
     /\ ClickYearLabel => (viewMode' = "year" /\ viewDate' = viewDate)
     /\ SelectYear =>
          /\ viewMode = "year"
          /\ viewMode' = "month"
          /\ viewDate'.m = viewDate.m
          /\ \E i \in 0..11 :
               viewDate'.y = ((viewDate.y + 543) - 6 + i) - 543
          /\ (viewDate.y = 2026 /\ viewDate'.y + 543 = 2569) => viewDate'.y = 2026
     /\ SelectMonth =>
          /\ viewMode = "month"
          /\ viewMode' = "day"
          /\ viewDate'.y = viewDate.y
          /\ viewDate'.m \in 0..11
     /\ viewMode \in ViewModes
     /\ viewMode' \in ViewModes]_vars

\* The calendar opened on 31 December 2026 shows the months of 2030, with
\* December as the month of viewDate: a year of the grid has been selected.
C15_Witness ==
  /\ arg = Calendar
  /\ viewMode = "month"
  /\ viewDate = [y |-> 2030, m |-> 11, d |-> 1, h |-> 0, mi |-> 0]
  /\ value = formatAD(withTime, [y |-> 2026, m |-> 11, d |-> 31,
                                 h |-> IF withTime THEN 14 ELSE 0,
                                 mi |-> IF withTime THEN 30 ELSE 0])

\* The BE years the year grid offers.
yearGrid == { yearCell(i) : i \in 0..11 }

\* The year and the month of a date.
yearMonth(date) == <<date.y, date.m>>

\* C16: handlePrev and handleNext move viewDate by one month in day mode
\* (from December to the January of the next year and back), by one year
\* with the month unchanged in month mode, and by twelve years with the
\* month unchanged in year mode, and leave viewMode as it is.  The year grid
\* offers the twelve BE years from the BE year of viewDate minus 6 on, so the
\* grid after a next page starts right after the one before it ends and
\* shares no year with it.  handlePrev after handleNext, and handleNext
\* after handlePrev, in the same mode restore the year and the month.
C16_Theorem ==
  [][/\ Prev =>
          /\ viewMode' = viewMode
          /\ viewMode = "day" => monthIndex(viewDate') = monthIndex(viewDate) - 1
          /\ viewMode = "month" => yearMonth(viewDate') = <<viewDate.y - 1, viewDate.m>>
          /\ viewMode = "year" => yearMonth(viewDate') = <<viewDate.y - 12, viewDate.m>>
          /\ (viewMode = "day" /\ viewDate.m = 0)
               => yearMonth(viewDate') = <<viewDate.y - 1, 11>>
     /\ NextPage =>
          /\ viewMode' = viewMode
          /\ viewMode = "day" => monthIndex(viewDate') = monthIndex(viewDate) + 1
          /\ viewMode = "month" => yearMonth(viewDate') = <<viewDate.y + 1, viewDate.m>>
          /\ viewMode = "year" => yearMonth(viewDate') = <<viewDate.y + 12, viewDate.m>>
          /\ (viewMode = "day" /\ viewDate.m = 11)
               => yearMonth(viewDate') = <<viewDate.y + 1, 0>>
          /\ viewMode = "year" =>
               /\ yearGrid' \cap yearGrid = {}
               /\ \A a \in yearGrid : \A b \in yearGrid' : a < b
               /\ \E a \in yearGrid : \E b \in yearGrid' : b = a + 1
     /\ yearGrid = ((viewDate.y + 543) - 6)..((viewDate.y + 543) + 5)
     /\ \A mode \in ViewModes :
          /\ yearMonth(prevDate(nextDate(viewDate, mode), mode)) = yearMonth(viewDate)
          /\ yearMonth(nextDate(prevDate(viewDate, mode), mode)) = yearMonth(viewDate)]_vars

\* The calendar opened on 31 December 2026 shows the year grid around 2038,
\* still on December: the year grid has been paged forward.
C16_Witness ==
  /\ arg = Calendar
  /\ viewMode = "year"
  /\ viewDate = [y |-> 2038, m |-> 11, d |-> 1, h |-> 0, mi |-> 0]
  /\ value = formatAD(withTime, [y |-> 2026, m |-> 11, d |-> 31,
                                 h |-> IF withTime THEN 14 ELSE 0,
                                 mi |-> IF withTime THEN 30 ELSE 0])

\* ------------------------------------------------------------------------
\* Properties of the popover
\* ------------------------------------------------------------------------
\* A step that opens the popover.
Opens == ~anchorEl /\ anchorEl'

\* A step that closes the popover.
Closes == anchorEl /\ ~anchorEl'

\* C17: whenever the popover goes from closed to open, viewMode is day in
\* the state that results, whatever it was when the popover was closed, and
\* viewDate and selectedTime are those of the instant of the value prop if
\* parseAD accepts it, and else those of the clock.
C17_Theorem ==
  [][Opens =>
       /\ viewMode' = "day"
       /\ IF parseAD(withTime, value) # Null
          THEN /\ viewDate' = parseAD(withTime, value)
               /\ selectedTime' = [hour |-> parseAD(withTime, value).h,
                                   minute |-> parseAD(withTime, value).mi]
          ELSE /\ viewDate' \in NowSet
               /\ selectedTime' = [hour |-> viewDate'.h, minute |-> viewDate'.mi]]_vars

\* The popover has been closed on the year grid, with a value parseAD
\* accepts and the calendar on another date, and the button opens it.
C17_Witness ==
  /\ ~anchorEl
  /\ ~disabled
  /\ ~EffectPending
  /\ viewMode = "year"
  /\ parseAD(withTime, value) # Null
  /\ viewDate # parseAD(withTime, value)

\* The display text once the effect, if one is pending for value v, has
\* run on the text iv.
settledText(wt, v, sv, iv, vd, st) ==
  IF sv # v THEN SyncResult(wt, v, iv, vd, st)[1] ELSE iv

\* The instant of day d of the month shown, at the selected time with
\* withTime and at 00:00 without.
cellInstant(d) ==
  [y |-> viewDate.y, m |-> viewDate.m, d |-> d,
   h |-> IF withTime THEN selectedTime.hour ELSE 0,
   mi |-> IF withTime THEN selectedTime.minute ELSE 0]

\* C18: a click on the cell of day d of the day grid calls onChange once,
\* with formatAD of the instant (year and month of viewDate, d, the selected
\* hour and minute with withTime and 00:00 without), and once the event is
\* processed, the effect of the new value included, the display text is
\* formatThai of that instant, with withTime and without.
C18_Theorem ==
  [][SelectDay =>
       \E d \in gridDays(viewDate) :
         /\ emitted' = <<formatAD(withTime, cellInstant(d))>>
         /\ settledText(withTime, value', syncedValue', inputValue', viewDate',
                        selectedTime')
              = formatThai(withTime, cellInstant(d))]_vars

\* Day 31 has been selected without withTime over a value of another day:
\* the popover is closed, handleClose has written the text of the old value
\* back, and the effect of the new value is pending.
C18_Witness ==
  /\ ~withTime
  /\ ~anchorEl
  /\ EffectPending
  /\ emitted = <<value>>
  /\ parseAD(withTime, value) # Null
  /\ parseAD(withTime, value).d = 31
  /\ inputValue # formatThai(withTime, parseAD(withTime, value))
  /\ inputValue # Empty

\* C19: a day selection and the Today button close the popover without
\* withTime and leave it open with withTime; with withTime no step closes
\* the popover but handleClose (the confirmation button, the backdrop,
\* Escape).  The Today button sets viewDate and selectedTime to the clock's
\* date and time and calls onChange with formatAD of them.
C19_Theorem ==
  [][/\ (SelectDay \/ Today) => (anchorEl' <=> withTime)
     /\ (withTime /\ Closes) => Close
     /\ Today =>
          \E now \in NowSet :
            /\ viewDate' = now
            /\ selectedTime' = [hour |-> now.h, minute |-> now.mi]
            /\ emitted' = <<formatAD(withTime, now)>>]_vars

\* The Today button has been used with withTime: the clock's instant has
\* been reported and the popover is open.
C19_Witness ==
  /\ withTime
  /\ anchorEl
  /\ viewDate \in NowSet
  /\ selectedTime = [hour |-> viewDate.h, minute |-> viewDate.mi]
  /\ emitted = <<formatAD(withTime, viewDate)>>
  /\ value = formatAD(withTime, viewDate)
  /\ EffectPending

\* The instant of a date at the time of a selected time.
retimedInstant(date, time) ==
  [y |-> date.y, m |-> date.m, d |-> date.d, h |-> time.hour, mi |-> time.minute]

\* C20: the selection of an hour or of a minute changes that one field of
\* selectedTime and no other.  It calls onChange if and only if parseAD
\* accepts the value prop, then once, with formatAD of the date of the value
\* at the hour and minute of the new selectedTime, and the display text
\* becomes formatThai of the same instant.  If parseAD rejects the value,
\* onChange is not called and the value and the display text stay as they
\* are.
C20_Theorem ==
  [][SelectTime =>
       /\ \/ selectedTime'.minute = selectedTime.minute
          \/ selectedTime'.hour = selectedTime.hour
       /\ selectedTime'.hour \in 0..23
       /\ selectedTime'.minute \in 0..59
       /\ IF parseAD(withTime, value) # Null
          THEN /\ emitted' =
                    <<formatAD(withTime,
                               retimedInstant(parseAD(withTime, value), selectedTime'))>>
               /\ inputValue' =
                    formatThai(withTime,
                               retimedInstant(parseAD(withTime, value), selectedTime'))
          ELSE /\ emitted' = <<>>
               /\ value' = value
               /\ inputValue' = inputValue]_vars

\* Hour 0 has been selected over a value at 14:30: the value reported is at
\* 00:30 and so is the display text.
C20_Witness ==
  /\ withTime
  /\ anchorEl
  /\ selectedTime = [hour |-> 0, minute |-> 30]
  /\ emitted = <<value>>
  /\ parseAD(withTime, value) # Null
  /\ parseAD(withTime, value).h = 0
  /\ parseAD(withTime, value).mi = 30
  /\ inputValue = formatThai(withTime, parseAD(withTime, value))

\* ------------------------------------------------------------------------
\* Properties of the date shown and of the calendar grid
\* ------------------------------------------------------------------------
\* C21 (as stated): in every reachable state viewDate has a month index in
\* 0..11 and the 1st as its day.
C21_Claim ==
  /\ viewDate.m \in 0..11
  /\ viewDate.d = 1

\* C21 (amended): in every reachable state viewDate is a date that exists,
\* with a month index in 0..11; a paging step and the selection of a month
\* or of a year leave it on the 1st at 00:00, while the mount, handleOpen,
\* the effect, a completed keystroke and the Today button leave it on the
\* day of the instant they set it from.
C21_Theorem ==
  [][/\ viewDate.m \in 0..11
     /\ viewDate'.m \in 0..11
     /\ viewDate.d \in 1..GregorianDays(viewDate.y, viewDate.m + 1)
     /\ viewDate'.d \in 1..GregorianDays(viewDate'.y, viewDate'.m + 1)
     /\ (Prev \/ NextPage \/ SelectYear \/ SelectMonth) =>
          (viewDate'.d = 1 /\ viewDate'.h = 0 /\ viewDate'.mi = 0)
     /\ (ValueSync /\ viewDate' # viewDate) => viewDate' = parseAD(withTime, value)
     /\ (Keystroke /\ viewDate' # viewDate) => viewDate' = parseThai(withTime, inputValue')
     /\ (Opens \/ Today) =>
          (viewDate' \in NowSet \/ viewDate' = parseAD(withTime, value))]_vars

\* The effect has set viewDate to the 18th, the day of the value prop.
C21_Witness ==
  /\ ~EffectPending
  /\ parseAD(withTime, value) # Null
  /\ viewDate = parseAD(withTime, value)
  /\ viewDate.d = 18

\* The years of the months whose grid is built: century years that are
\* and are not leap years, a leap year, and the years around the clock's.
GridYears == { 1900, 2000, 2023, 2024, 2025, CurrentYear, 2027, 2100 }

\* The days viewDate is left on.
GridDays == { 1, 18, 28 }

InitGrid ==
  /\ ComponentAtRest
  /\ arg \in [y : GridYears, m : 0..11, d : GridDays, h : {0}, mi : {0}]
  /\ res = Idle

\* calendarGrid for the date shown
BuildGrid ==
  /\ res = Idle
  /\ res' = <<"grid", calendarGrid(arg)>>
  /\ UNCHANGED <<arg, compVars>>

NextGrid == BuildGrid

SpecGrid == InitGrid /\ [][NextGrid]_vars

\* The day of the week of a date of the Gregorian calendar, 0 for Sunday,
\* by the table of month offsets (m is 1 for January).
MonthOffset == <<0, 3, 2, 5, 0, 3, 5, 1, 4, 6, 2, 4>>

Weekday(y, m, d) ==
  LET yy == IF m < 3 THEN y - 1 ELSE y
  IN  (yy + (yy \div 4) - (yy \div 100) + (yy \div 400) + MonthOffset[m] + d) % 7

Built == res # Idle /\ res[1] = "grid"

\* C22: for every year and month shown, the calendar grid has as many cells
\* as the weekday of the 1st of the month (0 for Sunday, at most 6) plus the
\* days of the month (28 to 31, by the Gregorian leap-year rule); the first
\* cells, as many as that weekday, are placeholders, and the others are the
\* days 1, 2, ... of the month in order.  The grid of February 2026 is the
\* days 1..28 with no placeholder.
C22_Theorem ==
  Built =>
    LET grid  == res[2]
        first == Weekday(arg.y, arg.m + 1, 1)
        days  == GregorianDays(arg.y, arg.m + 1)
    IN  /\ first \in 0..6
        /\ days \in 28..31
        /\ DOMAIN grid = 1..(first + days)
        /\ \A i \in 1..first : grid[i] = 0
        /\ \A i \in (first + 1)..(first + days) : grid[i] = i - first
        /\ (arg.y = 2026 /\ arg.m = 1) => grid = [i \in 1..28 |-> i]

\* The grid of February 2024 has been built: four placeholders, then the
\* days 1 to 29.
C22_Witness ==
  /\ Built
  /\ arg.y = 2024
  /\ arg.m = 1
  /\ Len(res[2]) = 33
  /\ res[2][4] = 0
  /\ res[2][5] = 1
  /\ res[2][33] = 29

\* ------------------------------------------------------------------------
\* Properties of browsing, of closing and of the text against the value
\* ------------------------------------------------------------------------
Browses ==
  Prev \/ NextPage \/ ClickMonthLabel \/ ClickYearLabel \/ SelectYear \/ SelectMonth

\* C23: paging back or forward in any view, a click on the month or on the
\* year label, and the choice of a month or of a year call onChange with
\* nothing and leave the value, the display text, the selected time and the
\* popover as they are: only viewDate and viewMode change.
C23_Theorem ==
  [][Browses =>
       /\ emitted' = <<>>
       /\ value' = value
       /\ syncedValue' = syncedValue
       /\ inputValue' = inputValue
       /\ selectedTime' = selectedTime
       /\ anchorEl' = anchorEl
       /\ withTime' = withTime
       /\ disabled' = disabled]_vars

\* The calendar has been paged to March 2026 while the value and the text
\* stay on another month.
C23_Witness ==
  /\ ~EffectPending
  /\ anchorEl
  /\ emitted = <<>>
  /\ parseAD(withTime, value) # Null
  /\ inputValue = formatThai(withTime, parseAD(withTime, value))
  /\ viewDate.y = 2026
  /\ viewDate.m = 2
  /\ viewDate.d = 1
  /\ parseAD(withTime, value).m # 2

\* The text a closing handler leaves for the value v it reads and the text
\* iv before it.
reconciled(wt, v, iv, propDate) ==
  IF propDate # Null THEN formatThai(wt, propDate)
  ELSE IF v = Empty THEN Empty
  ELSE iv

\* C24: closing the popover (onClose, confirmation button) sets the text to
\* the display form of the value prop when that parses, to the empty text
\* when the value is empty, and leaves it when the value is non-empty and
\* does not parse; it calls onChange with nothing and leaves the value,
\* viewDate, viewMode and selectedTime.  Whatever step closes the popover,
\* the text it leaves is the display form of the value prop its handler
\* read when that parses, and empty when that value is empty.
C24_Theorem ==
  [][/\ Close =>
          /\ ~anchorEl'
          /\ inputValue' =
               reconciled(withTime, value, inputValue, parseAD(withTime, value))
          /\ emitted' = <<>>
          /\ value' = value
          /\ viewDate' = viewDate
          /\ viewMode' = viewMode
          /\ selectedTime' = selectedTime
     /\ (Closes /\ parseAD(withTime, value) # Null) =>
          inputValue' = formatThai(withTime, parseAD(withTime, value))
     /\ (Closes /\ value = Empty) => inputValue' = Empty]_vars

\* With withTime only onClose and the confirmation button close the
\* popover: it has been closed in the month view, and the text is the
\* display form of the value.
C24_Witness ==
  /\ withTime
  /\ ~EffectPending
  /\ ~anchorEl
  /\ viewMode = "month"
  /\ emitted = <<>>
  /\ parseAD(withTime, value) # Null
  /\ inputValue = formatThai(withTime, parseAD(withTime, value))

\* The effect has run for the value prop, and the text is complete and
\* accepted by parseThai.
SettledDisplay ==
  /\ ~EffectPending
  /\ Complete(withTime, inputValue)
  /\ parseThai(withTime, inputValue) # Null

\* The text s reads as the instant p: the same day and month, the BE year
\* 543 more than the AD year, and with wt the same hour and minute.
readsAs(wt, s, p) ==
  /\ displayDay(s) = p.d
  /\ displayMonth(s) = p.m + 1
  /\ displayYear(s) = p.y
  /\ wt => (field(s, 12, 13) = p.h /\ field(s, 15, 16) = p.mi)

agrees(wt, s, typedDate, propDate) ==
  /\ propDate # Null
  /\ typedDate = propDate
  /\ readsAs(wt, s, propDate)

\* C25 (as stated): whenever the effect has run and the text is complete and
\* accepted by parseThai, the value prop parses and is the instant the text
\* reads as.
C25_Claim ==
  SettledDisplay =>
    agrees(withTime, inputValue, parseThai(withTime, inputValue),
           parseAD(withTime, value))

\* C25 (amended): whenever the effect has run and the text is complete and
\* accepted by parseThai, the value prop is not empty, and if it parses it
\* is the instant the text reads as.  A non-empty value that does not parse,
\* passed by the parent, leaves the complete text it finds.
C25_Theorem ==
  SettledDisplay =>
    /\ value # Empty
    /\ parseAD(withTime, value) # Null =>
         agrees(withTime, inputValue, parseThai(withTime, inputValue),
                parseAD(withTime, value))

\* A day cell of January 2026 has been chosen, and the effect has run: the
\* text and the value are both the 31st.
C25_Witness ==
  /\ SettledDisplay
  /\ parseAD(withTime, value) # Null
  /\ parseAD(withTime, value) = parseThai(withTime, inputValue)
  /\ parseAD(withTime, value).d = 31
  /\ displayDay(inputValue) = 31

\* The parent has passed a non-empty value that does not parse while the
\* text is a complete date.
C25_Unparsable ==
  /\ SettledDisplay
  /\ value # Empty
  /\ parseAD(withTime, value) = Null

====
